---- MODULE Spec2Model ----
(***************************************************************************)
(* sensor-gen: the rate-controlled generation-and-emission loop of         *)
(* src/main.go, as a state machine.                                        *)
(*                                                                         *)
(* Time is a discrete clock `now`, counted from the creation of the ticker *)
(* (nothing reads the clock before that); Second is the number of clock    *)
(* units in one second (time.Second is 1e9 ns in the source).  Draws       *)
(* of the random source are fractions k/FloatDen, and every float field of *)
(* a reading is kept as an integer numerator over a fixed denominator.     *)
(***************************************************************************)
EXTENDS Integers, Sequences, FiniteSets, TLC

\* ------------------------------------------------------------------ bounds
\* Clock units per second (the source's time.Second, scaled down).
Second == 3
\* The largest batch (the source's 1000, scaled down).
BatchCap == 2
\* Capacity of the bufio.Writer in tokens (the source's 1 MiB, scaled down;
\* as in the source, one full batch always fits: 2 tokens per record).
BufSize == 8
\* Largest target rate and run duration (clock units) drawn by Init.
MaxRate == 3
MaxDuration == 4
\* The clock stops advancing at MaxTime.
MaxTime == 6
\* Signals the environment sends at most.
MaxSignals == 1
\* Seconds between two progress reports (the source's 5, scaled down).
ReportSecs == 1
\* rng.Float64() returns k/FloatDen, k \in 0..FloatDen-1.
FloatDen == 4
\* Number of states of the random source.
RngMod == 16

\* ------------------------------------------------------- profile registry
sensorTypes ==
  << [Type |-> "pressure",       Unit |-> "psi",        Min |-> 200, Max |-> 1500],
     [Type |-> "temperature",    Unit |-> "fahrenheit", Min |-> -20, Max |-> 180],
     [Type |-> "flow_rate",      Unit |-> "bbl/hr",     Min |-> 0,   Max |-> 50000],
     [Type |-> "vibration",      Unit |-> "mm/s",       Min |-> 0,   Max |-> 25],
     [Type |-> "corrosion",      Unit |-> "mpy",        Min |-> 0,   Max |-> 50],
     [Type |-> "humidity",       Unit |-> "percent",    Min |-> 0,   Max |-> 100],
     [Type |-> "gas_detector",   Unit |-> "ppm",        Min |-> 0,   Max |-> 1000],
     [Type |-> "valve_position", Unit |-> "percent",    Min |-> 0,   Max |-> 100] >>

pipelineIDs ==
  << "PIPE-TX-001", "PIPE-TX-002", "PIPE-OK-001", "PIPE-LA-001",
     "PIPE-NM-001", "PIPE-CO-001", "PIPE-WY-001", "PIPE-ND-001" >>

statuses == << "normal", "normal", "normal", "normal", "warning", "maintenance" >>

alertLevels == << "", "", "", "", "", "low", "medium", "high" >>

\* st.Type[:3] for the eight registry kinds.
Prefix3(type) ==
  CASE type = "pressure"       -> "pre"
    [] type = "temperature"    -> "tem"
    [] type = "flow_rate"      -> "flo"
    [] type = "vibration"      -> "vib"
    [] type = "corrosion"      -> "cor"
    [] type = "humidity"       -> "hum"
    [] type = "gas_detector"   -> "gas"
    [] type = "valve_position" -> "val"

\* ---------------------------------------------------------- random source
\* math/rand's generator is a deterministic function of its state: every
\* draw advances the state and returns a value computed from it.
rngStep(s) == (5 * s + 3) % RngMod

\* rng.Intn(n): the state after the draw and a value in 0..n-1.
Intn(s, n) == [rng |-> rngStep(s), val |-> rngStep(s) % n]

\* rng.Float64(): the state after the draw and the numerator k of k/FloatDen.
Float64(s) == [rng |-> rngStep(s), val |-> rngStep(s) % FloatDen]

\* rng.Float64() < 0.02, on k/FloatDen.
IsAnomalyDraw(k) == k * 100 < 2 * FloatDen

\* ------------------------------------------------------ reading synthesizer
\* A float64 is either a finite number, kept as an integer numerator over the
\* field's denominator, or a value the JSON encoder rejects (NaN, +Inf, -Inf).
Fin(n) == [fin |-> TRUE, num |-> n]
NaN == [fin |-> FALSE, num |-> 0]

\* Denominators of the float fields of a reading.
ValueDen == 5 * FloatDen
QualityDen == 100 * FloatDen

\* value := st.Min + u*(st.Max-st.Min), as a numerator over ValueDen.
BaseValue(st, k) == Fin(5 * (st.Min * FloatDen + k * (st.Max - st.Min)))

\* An anomaly that goes below the nominal maximum.
AnomalyValueBelow(st, k) == Fin(5 * st.Max * FloatDen - k * st.Max)

\* value = st.Max + u*st.Max*0.2, as a numerator over ValueDen.
AnomalyValue(st, k) == Fin(5 * st.Max * FloatDen + k * st.Max)

\* An anomaly that leaves the alert level as drawn.
AnomalyAlertKept(alert) == alert

\* if alert == "" { alert = "medium" }
AnomalyAlert(alert) == IF alert = "" THEN "medium" ELSE alert

\* generateReading(rng) at clock value t: the reading and the state of the
\* random source after the call, with the profile selected, the alert level
\* drawn and whether the anomaly branch was taken.  The draws are taken in
\* the source's order.
generateReading(s0, t) ==
  LET d1 == Intn(s0, Len(sensorTypes))
      st == sensorTypes[d1.val + 1]
      d2 == Intn(d1.rng, Len(pipelineIDs))
      d3 == Intn(d2.rng, Len(statuses))
      d4 == Intn(d3.rng, Len(alertLevels))
      d5 == Float64(d4.rng)
      d6 == Float64(d5.rng)
      anomaly == IsAnomalyDraw(d6.val)
      d7 == IF anomaly THEN Float64(d6.rng) ELSE [rng |-> d6.rng, val |-> 0]
      value == IF anomaly THEN AnomalyValue(st, d7.val) ELSE BaseValue(st, d5.val)
      alert == IF anomaly THEN AnomalyAlert(alertLevels[d4.val + 1])
                          ELSE alertLevels[d4.val + 1]
      d8 == Intn(d7.rng, 10000)
      d9 == Float64(d8.rng)
      d10 == Float64(d9.rng)
      d11 == Float64(d10.rng)
      d12 == Float64(d11.rng)
  IN [ rng |-> d12.rng,
       anomaly |-> anomaly,
       profile |-> st,
       drawn |-> alertLevels[d4.val + 1],
       reading |->
         [ SensorID   |-> << "SNS", Prefix3(st.Type), d8.val >>,
           Timestamp  |-> t,
           Type       |-> st.Type,
           Value      |-> value,
           Unit       |-> st.Unit,
           Location   |-> [ Lat      |-> Fin(25 * FloatDen + d10.val * 20),
                            Lon      |-> Fin(-105 * FloatDen + d11.val * 15),
                            MilePost |-> Fin(d12.val * 500) ],
           PipelineID |-> pipelineIDs[d2.val + 1],
           Status     |-> statuses[d3.val + 1],
           Quality    |-> Fin(85 * FloatDen + d9.val * 15),
           AlertLevel |-> alert ] ]

\* --------------------------------------------------------- serialization
Floats(r) == { r.Value, r.Quality, r.Location.Lat, r.Location.Lon,
               r.Location.MilePost }

\* The members of the JSON object in struct order.
MarshalFieldsAlways(r) ==
  << << "sensor_id", r.SensorID >>,
     << "timestamp", r.Timestamp >>,
     << "type", r.Type >>,
     << "value", r.Value.num >>,
     << "unit", r.Unit >>,
     << "location", << << "lat", r.Location.Lat.num >>,
                       << "lon", r.Location.Lon.num >>,
                       << "mile_post", r.Location.MilePost.num >> >> >>,
     << "pipeline_id", r.PipelineID >>,
     << "status", r.Status >>,
     << "quality_score", r.Quality.num >>,
     << "alert_level", r.AlertLevel >> >>

\* The encoding without omitempty on alert_level.
MarshalFieldsNoOmit(r) == MarshalFieldsAlways(r)

\* alert_level carries omitempty: it is the last member and is left out when
\* the string is empty.
MarshalFields(r) ==
  LET all == MarshalFieldsAlways(r)
  IN IF r.AlertLevel = "" THEN SubSeq(all, 1, Len(all) - 1) ELSE all

\* What the sink and the file hold: tokens.  The bytes of one JSON object are
\* one token, the line delimiter is one token, and a chunk of bytes that were
\* in the file before the run is one token.
JsonTok(fields) == [kind |-> "json", body |-> fields]
NL == [kind |-> "nl", body |-> << >>]
Old == [kind |-> "old", body |-> << >>]

\* json.Marshal(reading): (data, err).  data is the bytes of one JSON object,
\* or nil with an error for a value the encoder does not support.
Marshal(r) ==
  IF \A x \in Floats(r) : x.fin
    THEN [ err |-> FALSE, data |-> << JsonTok(MarshalFields(r)) >> ]
    ELSE [ err |-> TRUE,  data |-> << >> ]

\* ------------------------------------------------------------ bufio.Writer
\* A sink is the writer and the file under it: buf is the writer's buffer,
\* err its sticky error (once a write to the file has failed, every later
\* call returns at once), disk the bytes of the file, and ok whether the
\* file accepts writes.  A failed write to the file writes nothing.
\* A flush that writes at offset 0 instead of at the end of the file.
FlushAtStart(w) == [w EXCEPT !.buf = << >>, !.disk = w.buf \o w.disk]

\* (*Writer).Flush: the buffered bytes go to the end of the file.
Flush(w) ==
  IF w.err \/ Len(w.buf) = 0 THEN w
  ELSE IF w.ok THEN [w EXCEPT !.buf = << >>, !.disk = w.disk \o w.buf]
  ELSE [w EXCEPT !.err = TRUE]

\* (*Writer).Write(p): bytes that do not fit are flushed through; a write
\* larger than the buffer goes to the file directly when the buffer is empty.
RECURSIVE Write(_, _)
Write(w, p) ==
  IF w.err THEN w
  ELSE IF Len(p) > BufSize - Len(w.buf)
    THEN IF Len(w.buf) = 0
           THEN IF w.ok THEN [w EXCEPT !.disk = w.disk \o p]
                        ELSE [w EXCEPT !.err = TRUE]
           ELSE LET n == BufSize - Len(w.buf)
                IN Write(Flush([w EXCEPT !.buf = w.buf \o SubSeq(p, 1, n)]),
                         SubSeq(p, n + 1, Len(p)))
    ELSE [w EXCEPT !.buf = w.buf \o p]

\* (*Writer).WriteByte(c)
WriteByte(w, c) ==
  IF w.err THEN w
  ELSE LET w1 == IF BufSize - Len(w.buf) <= 0 THEN Flush(w) ELSE w
       IN IF w1.err THEN w1 ELSE [w1 EXCEPT !.buf = Append(w1.buf, c)]

\* The iteration without the delimiter, and the iteration with a flush after
\* every line.
WriteLineNoDelimiter(w, r) == Write(w, Marshal(r).data)
WriteLineFlushed(w, r) == Flush(WriteByte(Write(w, Marshal(r).data), NL))

\* One iteration of the batch loop on a reading: marshal (the error is
\* discarded), write the data, write the delimiter.
WriteLine(w, r) == WriteByte(Write(w, Marshal(r).data), NL)

\* ------------------------------------------------------------------ pacing
Min(a, b) == IF a < b THEN a ELSE b

\* The batch size without the cap.
BatchSizeForUncapped(cap, r) == IF r < 1 THEN 1 ELSE r

\* batchSize := 1000; if rate < batchSize {batchSize = rate};
\* if batchSize < 1 {batchSize = 1}
BatchSizeFor(cap, r) ==
  LET b == IF r < cap THEN r ELSE cap
  IN IF b < 1 THEN 1 ELSE b

\* The result of converting a float64 that no int64 holds (here +Inf, from
\* a division by a zero rate) depends on the platform: the hardware yields
\* the smallest integer on some and saturates at the largest on others.
MaxInt64 == MaxTime + MaxTime
MinInt64 == -MaxInt64 - 1

\* The interval in integer arithmetic, time.Second / rate * batchSize: the
\* truncation the source's float64 conversion avoids.
IntervalForIntDiv(second, b, r) ==
  IF r = 0 THEN {MinInt64, MaxInt64}
  ELSE IF r > 0 THEN {(second \div r) * b}
  ELSE {-((second \div (-r)) * b)}

\* time.Duration(float64(time.Second) * float64(batchSize) / float64(rate)):
\* the quotient truncated toward zero; the set of values a build can produce.
IntervalFor(second, b, r) ==
  IF r = 0 THEN {MinInt64, MaxInt64}
  ELSE IF r > 0 THEN {(second * b) \div r}
  ELSE {-((second * b) \div (-r))}

\* ------------------------------------------------------------------- state
VARIABLES
  pc,           \* position of main: "open", "notify", "pace", "deadline",
                \* "select", "wait", "sigcase", "tickcase", "batch", "stats",
                \* "return", "done", "panic", "killed", "failed"
  rate,         \* *rate
  duration,     \* *duration, in clock units
  appendMode,   \* *appendMode
  verbose,      \* *verbose
  disk,         \* the bytes of the output file
  buf,          \* the bytes buffered in writer
  fileOpen,     \* file is open
  werr,         \* writer's sticky error is set
  brokeAt,      \* "none" while the file accepts writes; else when it stopped:
                \* "setup" (before the loop was entered) or "loop"
  notified,     \* signal.Notify has registered sigChan
  sigChan,      \* signals buffered in sigChan (capacity 1)
  batchSize,
  interval,
  tickerOn,     \* the ticker is running
  nextTick,     \* the clock value at which the ticker fires next
  tickC,        \* ticks buffered in ticker.C (capacity 1)
  endTime,
  startTime,
  lastReport,
  totalEntries,
  remaining,    \* iterations the batch loop still has to run
  rng,          \* state of the random source
  now,          \* the clock
  exitCode,     \* exit status of the process, -1 while it runs
  finalStats,   \* the totals printed by printFinalStats, in order
  averages,     \* the averages printed by printFinalStats, in order
  preContent,   \* history: the file's content before the run
  synthLog,     \* history: the data of every reading, in synthesis order
  sigCount,     \* history: signals sent to the process
  sigAt,        \* history: the position of main when the last signal came
  tickerStart,  \* history: the clock value at which the ticker was created
  fired,        \* history: ticks the ticker fired no later than endTime
  dropped,      \* history: ticks dropped because ticker.C was full
  batches,      \* history: batches started
  stoppedBy,    \* history: the select case that ended the loop
  reports,      \* history: the progress reports printed, in order
  genLog        \* history: for every reading, the profile selected, the alert
                \* level drawn and whether the anomaly branch was taken

config == << rate, duration, appendMode, verbose, preContent >>
sink   == << disk, buf, fileOpen, werr, brokeAt >>
timer  == << batchSize, interval, tickerOn, nextTick, tickC, tickerStart,
             fired, dropped >>
sigs   == << notified, sigChan, sigCount, sigAt >>
loop   == << endTime, startTime, lastReport, totalEntries, remaining, rng,
             synthLog, batches, stoppedBy, reports, genLog >>
outcome == << exitCode, finalStats, averages >>
vars == << pc, config, sink, timer, sigs, loop, outcome, now >>

Rates == -1 .. MaxRate
Durations == 0 .. MaxDuration
\* What the output file may hold before the run: nothing, or a complete line
\* followed by a line that lacks its delimiter.
PreContents == { << >>, << Old, NL, Old >> }

Terminal == { "done", "panic", "killed", "failed" }

\* The state of main's variables, the channels and the history before the
\* first statement of main.
Start ==
  /\ pc = "open"
  /\ preContent = disk
  /\ buf = << >>
  /\ fileOpen = FALSE
  /\ werr = FALSE
  /\ brokeAt = "none"
  /\ notified = FALSE
  /\ sigChan = 0
  /\ sigCount = 0
  /\ sigAt = "none"
  /\ batchSize = 0
  /\ interval = 0
  /\ tickerOn = FALSE
  /\ nextTick = 0
  /\ tickC = 0
  /\ tickerStart = 0
  /\ fired = 0
  /\ dropped = 0
  /\ endTime = 0
  /\ startTime = 0
  /\ lastReport = 0
  /\ reports = << >>
  /\ totalEntries = 0
  /\ remaining = 0
  /\ rng = 0
  /\ synthLog = << >>
  /\ genLog = << >>
  /\ batches = 0
  /\ stoppedBy = "none"
  /\ now = 0
  /\ exitCode = -1
  /\ finalStats = << >>
  /\ averages = << >>

\* The inputs of a run.  Verbosity is explored on runs that overwrite an
\* empty file.
Init ==
  /\ rate \in Rates
  /\ duration \in Durations
  /\ appendMode \in BOOLEAN
  /\ disk \in PreContents
  /\ verbose \in IF appendMode \/ disk # << >> THEN { FALSE } ELSE BOOLEAN
  /\ Start

\* The target rates up to the first for which 1 s * batchSize / rate is less
\* than one clock unit.
BigRates == -1 .. Second * BatchCap + 1

\* The inputs of a quiet run with any of these rates, overwriting an empty
\* file.
InitRates ==
  /\ rate \in BigRates
  /\ duration \in Durations
  /\ appendMode = FALSE
  /\ disk = << >>
  /\ verbose = FALSE
  /\ Start

\* ------------------------------------------------------------------- setup
\* An open that never truncates.
OpenedContentKept(append, content) == content

\* Lines 67-87: os.OpenFile(O_APPEND|O_CREATE|O_WRONLY) keeps the content,
\* os.Create truncates it; then the buffered writer is created.
OpenedContent(append, content) == IF append THEN content ELSE << >>

OpenFile ==
  /\ pc = "open"
  /\ disk' = OpenedContent(appendMode, disk)
  /\ buf' = << >>
  /\ fileOpen' = TRUE
  /\ pc' = "notify"
  /\ UNCHANGED << config, werr, brokeAt, timer, sigs, loop, outcome, now >>

\* Lines 72-75 and 78-81: the open fails; the error is printed and the
\* process exits with status 1.  The file is left as it was.
OpenFileError ==
  /\ pc = "open"
  /\ exitCode' = 1
  /\ pc' = "failed"
  /\ UNCHANGED << config, sink, timer, sigs, loop, finalStats,
                  averages, now >>

\* writer over file, as the calls of main's loop find it.
Writer == [buf |-> buf, disk |-> disk, err |-> werr, ok |-> brokeAt = "none"]

\* Lines 90-91: sigChan := make(chan os.Signal, 1); signal.Notify(...)
Notify ==
  /\ pc = "notify"
  /\ notified' = TRUE
  /\ pc' = "pace"
  /\ UNCHANGED << config, sink, timer, sigChan, sigCount, sigAt, loop, outcome,
                  now >>

\* The deferred calls of main, run when main returns or panics:
\* ticker.Stop(), writer.Flush(), file.Close().
DeferredSink == Flush(Writer)

\* Lines 103-115: batch size, tick interval, time.NewTicker.  NewTicker
\* panics on a non-positive interval; the process then exits with status 2.
NewTicker ==
  /\ pc = "pace"
  /\ batchSize' = BatchSizeFor(BatchCap, rate)
  /\ \E iv \in IntervalFor(Second, BatchSizeFor(BatchCap, rate), rate) :
       /\ iv > 0
       /\ interval' = iv
       /\ nextTick' = now + iv
  /\ tickerOn' = TRUE
  /\ tickerStart' = now
  /\ pc' = "deadline"
  /\ UNCHANGED << config, sink, tickC, fired, dropped, sigs, loop, outcome, now >>

NewTickerPanic ==
  /\ pc = "pace"
  /\ batchSize' = BatchSizeFor(BatchCap, rate)
  /\ \E iv \in IntervalFor(Second, BatchSizeFor(BatchCap, rate), rate) :
       /\ iv <= 0
       /\ interval' = iv
  /\ disk' = DeferredSink.disk
  /\ buf' = DeferredSink.buf
  /\ werr' = DeferredSink.err
  /\ fileOpen' = FALSE
  /\ exitCode' = 2
  /\ pc' = "panic"
  /\ UNCHANGED << config, brokeAt, tickerOn, nextTick, tickC, tickerStart, fired,
                  dropped, sigs, loop, finalStats,
                  averages, now >>

\* rand.NewSource(time.Now().UnixNano()): the state the clock value seeds.
Seed(t) == t % RngMod

\* Lines 117-126: the deadline, the counters and the random source.
SetDeadline ==
  /\ pc = "deadline"
  /\ endTime' = IF duration > 0 THEN now + duration ELSE 0
  /\ totalEntries' = 0
  /\ startTime' = now
  /\ lastReport' = now
  /\ rng' = Seed(now)
  /\ pc' = "select"
  /\ UNCHANGED << config, sink, timer, sigs, remaining, synthLog, batches,
                  stoppedBy, reports, genLog, outcome, now >>

\* -------------------------------------------------------- the emission loop
\* The deadline test without the guard on *duration.
DeadlinePassedUnguarded == now > endTime

\* The deadline test with the deadline itself counted as passed.
DeadlineReached == duration > 0 /\ now >= endTime

\* *duration > 0 && time.Now().After(endTime)
DeadlinePassed == duration > 0 /\ now > endTime

\* A sigChan on which no receive ever proceeds.
SignalReadyNever == FALSE

\* The channels of the select on which a receive can proceed.
SignalReady == sigChan > 0
TickReady == tickC > 0

\* Lines 129-134, the select statement.  It is evaluated in one step: a case
\* whose channel is ready is taken, either one when both are ready (the
\* runtime picks at random); with no channel ready the goroutine parks, and
\* the first send on either channel is handed to it and decides the case.
SelectSignal ==
  /\ pc = "select"
  /\ SignalReady
  /\ sigChan' = sigChan - 1
  /\ pc' = "sigcase"
  /\ UNCHANGED << config, sink, timer, notified, sigCount, sigAt, loop, outcome,
                  now >>

SelectTick ==
  /\ pc = "select"
  /\ TickReady
  /\ tickC' = tickC - 1
  /\ pc' = "tickcase"
  /\ UNCHANGED << config, sink, batchSize, interval, tickerOn, nextTick,
                  tickerStart, fired, dropped, sigs, loop, outcome, now >>

SelectPark ==
  /\ pc = "select"
  /\ ~SignalReady
  /\ ~TickReady
  /\ pc' = "wait"
  /\ UNCHANGED << config, sink, timer, sigs, loop, outcome, now >>

\* Lines 130-131: case <-sigChan, up to and including writer.Flush().
StopOnSignal ==
  /\ pc = "sigcase"
  /\ disk' = Flush(Writer).disk
  /\ buf' = Flush(Writer).buf
  /\ werr' = Flush(Writer).err
  /\ stoppedBy' = "signal"
  /\ pc' = "stats"
  /\ UNCHANGED << config, fileOpen, brokeAt, timer, sigs, endTime, startTime,
                  lastReport, totalEntries, remaining, rng, synthLog, batches,
                  reports, genLog, outcome, now >>

\* Lines 134-136: case <-ticker.C with the deadline passed, up to and
\* including writer.Flush().
StopOnDeadline ==
  /\ pc = "tickcase"
  /\ DeadlinePassed
  /\ disk' = Flush(Writer).disk
  /\ buf' = Flush(Writer).buf
  /\ werr' = Flush(Writer).err
  /\ stoppedBy' = "deadline"
  /\ pc' = "stats"
  /\ UNCHANGED << config, fileOpen, brokeAt, timer, sigs, endTime, startTime,
                  lastReport, totalEntries, remaining, rng, synthLog, batches,
                  reports, genLog, outcome, now >>

\* Lines 134-142: case <-ticker.C with no deadline passed: the batch loop
\* is entered with batchSize iterations to run.
StartBatch ==
  /\ pc = "tickcase"
  /\ ~DeadlinePassed
  /\ remaining' = batchSize
  /\ batches' = batches + 1
  /\ pc' = "batch"
  /\ UNCHANGED << config, sink, timer, sigs, endTime, startTime, lastReport,
                  totalEntries, rng, synthLog, stoppedBy, reports, genLog,
                  outcome, now >>

\* Lines 143-147: one iteration of the batch loop, in which generateReading
\* returned g and the reading r is marshalled and written.
EmitReading(g, r) ==
  /\ disk' = WriteLine(Writer, r).disk
  /\ buf' = WriteLine(Writer, r).buf
  /\ werr' = WriteLine(Writer, r).err
  /\ totalEntries' = totalEntries + 1
  /\ remaining' = remaining - 1
  /\ rng' = g.rng
  /\ synthLog' = Append(synthLog, r)
  /\ genLog' = Append(genLog, [ profile |-> g.profile, drawn |-> g.drawn,
                                anomaly |-> g.anomaly ])
  /\ UNCHANGED << pc, config, fileOpen, brokeAt, timer, sigs, endTime,
                  startTime, lastReport, batches, stoppedBy, reports, outcome,
                  now >>

\* generateReading is a function of the state of the random source; the
\* clock only stamps the reading.  Its results, tabulated by that state, and
\* the result of a call at clock value t.
GeneratedReadings == [ s \in 0 .. RngMod - 1 |-> generateReading(s, 0) ]
ReadingAt(s, t) == [ GeneratedReadings[s] EXCEPT !.reading.Timestamp = t ]

\* Lines 142-148: one iteration of the batch loop.
WriteRecord ==
  /\ pc = "batch"
  /\ remaining > 0
  /\ \E g \in { ReadingAt(rng, now) } : EmitReading(g, g.reading)

\* A report at every flush, whatever the time since the last one.
ReportDueAlways(v, since) == v

\* *verbose && time.Since(lastReport) >= 5*time.Second
ReportDue(v, since) == v /\ since >= ReportSecs * Second

\* Lines 150-159: the batch loop is over; writer.Flush(), and then the
\* periodic progress report: the total and the clock value it is printed at.
FlushBatch ==
  /\ pc = "batch"
  /\ remaining = 0
  /\ disk' = Flush(Writer).disk
  /\ buf' = Flush(Writer).buf
  /\ werr' = Flush(Writer).err
  /\ IF ReportDue(verbose, now - lastReport)
       THEN /\ reports' = Append(reports, [at |-> now, total |-> totalEntries])
            /\ lastReport' = now
       ELSE UNCHANGED << reports, lastReport >>
  /\ pc' = "select"
  /\ UNCHANGED << config, fileOpen, brokeAt, timer, sigs, endTime, startTime,
                  totalEntries, remaining, rng, synthLog, batches, stoppedBy,
                  genLog, outcome, now >>

\* A second report of the same total.
printFinalStatsTwice(printed, total) == Append(Append(printed, total), total)

\* Lines 197-210: printFinalStats(total, ...) prints one report; printed is
\* the totals printed so far.
printFinalStats(printed, total) == Append(printed, total)

\* A float64 division, to the precision printed: the quotient, or for a zero
\* divisor the NaN or infinity that IEEE 754 defines (no panic).
Quotient(a, b) == IF b = 0 THEN NaN ELSE Fin(a \div b)

\* Lines 198-199 and 209: the average rate, float64(total) /
\* elapsed.Seconds(), and the average entry size, float64(fi.Size()) /
\* float64(total); elapsed is in clock units, size in tokens.
finalAverages(total, elapsed, size) ==
  [ rate      |-> Quotient(total * Second, elapsed),
    entrySize |-> Quotient(size, total) ]

\* Lines 132 and 137: the call printFinalStats(totalEntries, ...).
PrintFinalStats ==
  /\ pc = "stats"
  /\ finalStats' = printFinalStats(finalStats, totalEntries)
  /\ averages' = Append(averages,
                        finalAverages(totalEntries, now - startTime, Len(disk)))
  /\ pc' = "return"
  /\ UNCHANGED << config, sink, timer, sigs, loop, exitCode, now >>

\* Lines 133 and 138: return; the deferred calls run and the process exits
\* with status 0.
Return ==
  /\ pc = "return"
  /\ tickerOn' = FALSE
  /\ disk' = DeferredSink.disk
  /\ buf' = DeferredSink.buf
  /\ werr' = DeferredSink.err
  /\ fileOpen' = FALSE
  /\ exitCode' = 0
  /\ pc' = "done"
  /\ UNCHANGED << config, brokeAt, batchSize, interval, nextTick, tickC,
                  tickerStart, fired, dropped, sigs, loop, finalStats,
                  averages, now >>

\* ------------------------------------------------------------- environment
\* SIGINT or SIGTERM once sigChan is registered: the runtime sends on
\* sigChan without blocking.  A goroutine parked in the select receives the
\* signal at once; otherwise the signal is buffered, and lost when the buffer
\* is full.
Signal ==
  /\ pc \notin Terminal
  /\ notified
  /\ sigCount < MaxSignals
  /\ sigCount' = sigCount + 1
  /\ sigAt' = pc
  /\ IF pc = "wait"
       THEN pc' = "sigcase" /\ sigChan' = sigChan
       ELSE pc' = pc /\ sigChan' = 1
  /\ UNCHANGED << config, sink, timer, notified, loop, outcome, now >>

\* SIGINT or SIGTERM before sigChan is registered: the default disposition
\* ends the process; nothing deferred runs.
SignalDefault ==
  /\ pc \notin Terminal
  /\ ~notified
  /\ sigCount < MaxSignals
  /\ sigCount' = sigCount + 1
  /\ sigAt' = pc
  /\ fileOpen' = FALSE
  /\ exitCode' = 130
  /\ pc' = "killed"
  /\ UNCHANGED << config, disk, buf, werr, brokeAt, timer, notified, sigChan,
                  loop, finalStats, averages, now >>

\* The clock advances by one unit while the loop is being set up or runs.
\* A running ticker whose time has come sends on ticker.C without blocking:
\* a goroutine parked in the select receives the tick at once; otherwise the
\* tick is buffered, and dropped when the buffer is full.
Advance ==
  /\ pc \in { "deadline", "select", "wait", "tickcase", "batch" }
  /\ now < MaxTime
  /\ now' = now + 1
  /\ IF tickerOn /\ now + 1 = nextTick
       THEN /\ nextTick' = nextTick + interval
            /\ fired' = IF pc = "deadline" \/ duration <= 0 \/ now + 1 <= endTime
                          THEN fired + 1 ELSE fired
            /\ IF pc = "wait"
                 THEN pc' = "tickcase" /\ UNCHANGED << tickC, dropped >>
                 ELSE /\ pc' = pc
                      /\ tickC' = 1
                      /\ dropped' = IF tickC > 0 THEN dropped + 1 ELSE dropped
       ELSE UNCHANGED << pc, nextTick, tickC, dropped, fired >>
  /\ UNCHANGED << config, sink, batchSize, interval, tickerOn, tickerStart,
                  sigs, loop, outcome >>

Next ==
  \/ OpenFile
  \/ OpenFileError
  \/ Notify
  \/ NewTicker
  \/ NewTickerPanic
  \/ SetDeadline
  \/ SelectSignal
  \/ SelectTick
  \/ SelectPark
  \/ StopOnSignal
  \/ StopOnDeadline
  \/ StartBatch
  \/ WriteRecord
  \/ FlushBatch
  \/ PrintFinalStats
  \/ Return
  \/ Signal
  \/ SignalDefault
  \/ Advance

Spec == Init /\ [][Next]_vars

\* The steps of main.
MainStep ==
  \/ OpenFile
  \/ OpenFileError
  \/ Notify
  \/ NewTicker
  \/ NewTickerPanic
  \/ SetDeadline
  \/ SelectSignal
  \/ SelectTick
  \/ SelectPark
  \/ StopOnSignal
  \/ StopOnDeadline
  \/ StartBatch
  \/ WriteRecord
  \/ FlushBatch
  \/ PrintFinalStats
  \/ Return

\* The inputs of a quiet run that overwrites an empty file, for one second
\* or with no duration.
InitLive ==
  /\ rate \in Rates
  /\ duration \in { 0, Second }
  /\ appendMode = FALSE
  /\ disk = << >>
  /\ verbose = FALSE
  /\ Start

\* The scheduling the program runs under: main keeps taking steps, the clock
\* keeps advancing (and with it the ticker keeps firing) up to the horizon
\* MaxTime, and the select, which picks at random among its ready cases,
\* does not pass over a signal that is ready every time.
Fairness ==
  /\ WF_vars(MainStep)
  /\ WF_vars(Advance)
  /\ SF_vars(SelectSignal)

SpecLive == InitLive /\ [][Next]_vars /\ Fairness

\* The setup of main, lines 59-126, up to the entry of the loop, on the
\* wider range of rates.
NextSetup ==
  \/ OpenFile
  \/ OpenFileError
  \/ Notify
  \/ NewTicker
  \/ NewTickerPanic
  \/ SetDeadline
  \/ Signal
  \/ SignalDefault
  \/ Advance

SpecSetup == InitRates /\ [][NextSetup]_vars

\* ------------------------------------------------- serialization failure
\* json.Marshal fails only on a float64 it cannot represent, which
\* generateReading never produces.  To see what the batch loop does with
\* the error it discards, this step runs one iteration on a reading whose
\* value is such a float; at most once in a run.
WriteUnserializable ==
  /\ pc = "batch"
  /\ remaining > 0
  /\ \A i \in DOMAIN synthLog : ~Marshal(synthLog[i]).err
  /\ \E g \in { ReadingAt(rng, now) } :
       EmitReading(g, [g.reading EXCEPT !.Value = NaN])

NextFault == Next \/ WriteUnserializable

SpecFault == Init /\ [][NextFault]_vars

\* ------------------------------------------------------------ sink failure
\* The file stops accepting writes (the disk is full, the device is gone):
\* from now on every write to it fails.  It may do so as soon as the file is
\* open, so that the handle cannot be written to at all.
SinkBreaks ==
  /\ fileOpen
  /\ pc \notin Terminal
  /\ brokeAt = "none"
  /\ brokeAt' = IF pc \in { "notify", "pace", "deadline" } THEN "setup" ELSE "loop"
  /\ UNCHANGED << pc, config, disk, buf, fileOpen, werr, timer, sigs, loop,
                  outcome, now >>

NextIO == Next \/ SinkBreaks

SpecIO == Init /\ [][NextIO]_vars

TypeOK ==
  /\ pc \in { "open", "notify", "pace", "deadline", "select", "wait", "sigcase",
              "tickcase", "batch", "stats", "return" } \cup Terminal
  /\ sigChan \in 0 .. 1
  /\ tickC \in 0 .. 1
  /\ remaining \in 0 .. BatchCap
  /\ Len(buf) <= BufSize

\* =================================================================== claims
\* What the file held when the run's first byte was written, and what the run
\* has put after it.
BaseContent == IF appendMode THEN preContent ELSE << >>
RunPart == SubSeq(disk, Len(BaseContent) + 1, Len(disk))

\* The number of lines (delimiters) in a sequence of tokens.
LineCount(toks) == Cardinality({ i \in DOMAIN toks : toks[i] = NL })

\* The positions of main at which the ticker exists and the process runs.
RunPcs == { "deadline", "select", "wait", "sigcase", "tickcase", "batch",
            "stats", "return" }

\* A reader of the file: the keys of a JSON object and the value of a key.
Keys(fields) == { fields[i][1] : i \in DOMAIN fields }
Get(fields, k) == fields[CHOOSE i \in DOMAIN fields : fields[i][1] = k][2]

RequiredKeys == { "sensor_id", "timestamp", "type", "value", "unit", "location",
                  "pipeline_id", "status", "quality_score" }
LocationKeys == { "lat", "lon", "mile_post" }

\* A token that parses as the JSON object of one SensorReading: every
\* required member once, alert_level only when it is not empty.
IsReadingObject(tok) ==
  /\ tok.kind = "json"
  /\ RequiredKeys \subseteq Keys(tok.body)
  /\ Keys(tok.body) \subseteq RequiredKeys \cup { "alert_level" }
  /\ Len(tok.body) = Cardinality(Keys(tok.body))
  /\ Keys(Get(tok.body, "location")) = LocationKeys
  /\ "alert_level" \in Keys(tok.body) => Get(tok.body, "alert_level") # ""

\* The SensorReading a reader decodes from such an object.
Unmarshal(tok) ==
  LET f == tok.body
      loc == Get(f, "location")
  IN [ SensorID   |-> Get(f, "sensor_id"),
       Timestamp  |-> Get(f, "timestamp"),
       Type       |-> Get(f, "type"),
       Value      |-> Fin(Get(f, "value")),
       Unit       |-> Get(f, "unit"),
       Location   |-> [ Lat      |-> Fin(Get(loc, "lat")),
                        Lon      |-> Fin(Get(loc, "lon")),
                        MilePost |-> Fin(Get(loc, "mile_post")) ],
       PipelineID |-> Get(f, "pipeline_id"),
       Status     |-> Get(f, "status"),
       Quality    |-> Fin(Get(f, "quality_score")),
       AlertLevel |-> IF "alert_level" \in Keys(f) THEN Get(f, "alert_level")
                                                  ELSE "" ]

\* ---------------------------------------------------------------------- C1
\* C1: when a stop signal has come to a run whose ticker exists (before the
\* first tick, between ticks, while a batch is written, or later), and the
\* process has ended, it has ended with status 0 and the one total printed by
\* the final statistics is the number of lines the run put in the file.
C1_StopSignalTotal ==
  (pc \in Terminal /\ sigAt \in RunPcs) =>
     /\ pc = "done"
     /\ exitCode = 0
     /\ finalStats = << LineCount(RunPart) >>

\* A run stopped by a signal that came while a batch was being written.
C1_Witness ==
  /\ pc = "done"
  /\ sigAt = "batch"
  /\ stoppedBy = "signal"
  /\ finalStats = << LineCount(RunPart) >>
  /\ LineCount(RunPart) >= BatchSizeFor(BatchCap, rate)
  /\ LineCount(RunPart) > 0

\* ---------------------------------------------------------------------- C2
\* C2: once the loop has ended by either path and the file is closed, what
\* the run put in the file is, for every reading synthesized and in order,
\* one JSON object of a SensorReading that decodes to that reading, followed
\* by the line delimiter: no partial record and no other line.
C2_OnlyCompleteLines ==
  pc = "done" =>
     /\ ~fileOpen
     /\ buf = << >>
     /\ Len(RunPart) = 2 * Len(synthLog)
     /\ \A i \in DOMAIN synthLog :
          /\ IsReadingObject(RunPart[2 * i - 1])
          /\ Unmarshal(RunPart[2 * i - 1]) = synthLog[i]
          /\ RunPart[2 * i] = NL

\* A closed file with records of both shapes, with and without alert_level,
\* after a stop by the deadline.
C2_Witness ==
  /\ pc = "done"
  /\ stoppedBy = "deadline"
  /\ \E i, j \in DOMAIN synthLog :
       /\ synthLog[i].AlertLevel = ""
       /\ synthLog[j].AlertLevel # ""
       /\ "alert_level" \notin Keys(RunPart[2 * i - 1].body)
       /\ "alert_level" \in Keys(RunPart[2 * j - 1].body)

\* ---------------------------------------------------------------------- C3
\* C3: a stop signal that is waiting in sigChan is handled in preference to
\* a timer tick: a select at which the signal is ready does not take the
\* tick, so no new batch is started after the signal has come.
C3_SignalBeforeTick ==
  [][(pc = "select" /\ SignalReady) => pc' # "tickcase"]_vars

\* ---------------------------------------------------------------------- C4
\* The distance between the total and rate * duration, both multiplied by
\* Second (duration is in clock units).
Abs(x) == IF x < 0 THEN -x ELSE x
ScaledShortfall == rate * duration - Second * totalEntries

\* A run with a positive rate that the deadline ended and no signal reached.
DeadlineRun ==
  /\ pc = "done"
  /\ stoppedBy = "deadline"
  /\ sigCount = 0
  /\ rate > 0

\* C4 as stated: when such a run ends, the total differs from rate * duration
\* by at most batchSize.
C4_WithinOneBatch ==
  DeadlineRun => Abs(ScaledShortfall) <= Second * batchSize

\* The timer is exact and undisturbed: 1 s * batchSize / rate is a whole
\* number of clock units, the duration is a multiple of it, the deadline is
\* set less than one interval after the ticker is created, and no tick was
\* dropped.
ExactPacing ==
  /\ (Second * batchSize) % rate = 0
  /\ duration % interval = 0
  /\ startTime - tickerStart < interval
  /\ dropped = 0

\* C4, amended: when such a run ends, the total is batchSize times the
\* number of batches; there are at most as many batches as ticks fired up to
\* the deadline, and at most two plus the number of dropped ticks fewer (the
\* tick on which the deadline was found passed, and one left in ticker.C);
\* and under exact pacing the total is at most rate * duration and at most
\* two batches below it.
C4_PacedTotal ==
  DeadlineRun =>
     /\ batchSize = Min(BatchCap, rate)
     /\ totalEntries = batchSize * batches
     /\ batches <= fired
     /\ fired <= batches + dropped + 2
     /\ ExactPacing =>
          (0 <= ScaledShortfall /\ ScaledShortfall <= 2 * Second * batchSize)

\* A run of one second at rate 1 that wrote rate * duration records, and
\* the same for a rate above the largest batch.
C4_Witness ==
  /\ DeadlineRun
  /\ ExactPacing
  /\ totalEntries > 0
  /\ ScaledShortfall = 0
  /\ rate > BatchCap

\* ---------------------------------------------------------------------- C5
\* C5: whenever the loop waits for the next event or has ended, the sink's
\* buffer is empty and the file holds, from this run, exactly the records of
\* the batches started, batchSize each; and while a batch is being written
\* the file holds only the whole batches before it.
C5_WholeBatches ==
  /\ pc \in { "select", "wait", "sigcase", "tickcase", "stats", "return",
              "done" } =>
       /\ buf = << >>
       /\ totalEntries = batchSize * batches
       /\ LineCount(RunPart) = batchSize * batches
       /\ Len(RunPart) = 2 * batchSize * batches
  /\ pc = "batch" =>
       /\ totalEntries = batchSize * (batches - 1) + (batchSize - remaining)
       /\ LineCount(RunPart) = batchSize * (batches - 1)
       /\ Len(RunPart) = 2 * batchSize * (batches - 1)

\* The loop waits after two whole batches of two records, a signal ready.
C5_Witness ==
  /\ pc = "select"
  /\ batchSize = BatchCap
  /\ batches >= 2
  /\ SignalReady
  /\ buf = << >>
  /\ LineCount(RunPart) = batchSize * batches

\* ---------------------------------------------------------------------- C6
\* The file has been opened by this run.
Opened == pc \notin { "open", "failed" } /\ sigAt # "open"

IsPrefix(a, b) == Len(a) <= Len(b) /\ SubSeq(b, 1, Len(a)) = a

\* The bytes of the lines of the readings synthesized, in order.
RECURSIVE EmittedTokens(_)
EmittedTokens(log) ==
  IF log = << >> THEN << >>
  ELSE EmittedTokens(SubSeq(log, 1, Len(log) - 1))
         \o Marshal(log[Len(log)]).data \o << NL >>

\* C6: in append mode the file keeps what it held before the run as a
\* prefix and the run's records come after it; in overwrite mode the file
\* holds records of this run only; and the file of an ended run holds all of
\* them.
C6_AppendOrOverwrite ==
  /\ Opened =>
       IF appendMode
         THEN /\ IsPrefix(preContent, disk)
              /\ IsPrefix(disk, preContent \o EmittedTokens(synthLog))
         ELSE IsPrefix(disk, EmittedTokens(synthLog))
  /\ pc = "done" =>
       disk = (IF appendMode THEN preContent ELSE << >>) \o EmittedTokens(synthLog)

\* Both modes on a file that held something: a closed file with the old
\* content and then records, and a closed file with records only.
C6_Witness ==
  /\ pc = "done"
  /\ preContent # << >>
  /\ synthLog # << >>
  /\ appendMode
  /\ disk = preContent \o EmittedTokens(synthLog)

C6_WitnessOverwrite ==
  /\ pc = "done"
  /\ preContent # << >>
  /\ synthLog # << >>
  /\ ~appendMode
  /\ disk = EmittedTokens(synthLog)

\* ---------------------------------------------------------------------- C7
\* C7: once the file is open, every step leaves the file's content a prefix
\* of what it is afterwards, and the file and the buffer together hold the
\* lines of the readings in the order of their synthesis.
C7_AppendOnly ==
  [][ /\ Opened => IsPrefix(disk, disk')
      /\ Opened' => disk' \o buf' = BaseContent \o EmittedTokens(synthLog') ]_vars

\* A second batch has reached the file behind the first.
C7_Witness ==
  /\ pc = "select"
  /\ batches >= 2
  /\ Len(synthLog) >= 3
  /\ disk = BaseContent \o EmittedTokens(synthLog)
  /\ synthLog[1] # synthLog[2]

\* ---------------------------------------------------------------------- C8
Phase(p) ==
  CASE p \in { "select", "wait", "sigcase", "tickcase", "batch" } -> "RUNNING"
    [] p \in { "stats", "return" } -> "STOPPING"
    [] p = "done" -> "STOPPED"
    [] OTHER -> "NONE"

\* C8: RUNNING is left only for STOPPING, and then with the buffer flushed
\* and no statistics printed yet; STOPPING is left only for STOPPED, and
\* then with status 0 and exactly one report printed, the total; a report is
\* printed only while STOPPING; and from STOPPING on no record is
\* synthesized, counted or written.
C8_Lifecycle ==
  [][ /\ Phase(pc) = "RUNNING" => Phase(pc') \in { "RUNNING", "STOPPING" }
      /\ (Phase(pc) = "RUNNING" /\ Phase(pc') = "STOPPING") =>
            /\ buf' = << >>
            /\ disk' = disk \o buf
            /\ finalStats' = << >>
            /\ stoppedBy' \in { "signal", "deadline" }
      /\ Phase(pc) = "STOPPING" => Phase(pc') \in { "STOPPING", "STOPPED" }
      /\ (Phase(pc) = "STOPPING" /\ Phase(pc') = "STOPPED") =>
            /\ exitCode' = 0
            /\ finalStats' = << totalEntries >>
      /\ finalStats' # finalStats => Phase(pc) = "STOPPING"
      /\ Phase(pc) = "STOPPED" => pc' = pc
      /\ Phase(pc) \in { "STOPPING", "STOPPED" } =>
            UNCHANGED << disk, buf, totalEntries, synthLog, batches >> ]_vars

\* A run the deadline stopped, with records written, that a signal reached
\* while it was stopping.
C8_Witness ==
  /\ pc = "done"
  /\ stoppedBy = "deadline"
  /\ sigAt \in { "stats", "return" }
  /\ totalEntries > 0
  /\ finalStats = << totalEntries >>
  /\ exitCode = 0

\* ---------------------------------------------------------------------- C9
\* C9: with no duration configured the deadline never ends the loop: every
\* tick taken from ticker.C starts a batch, and the run stops only by a
\* signal that was sent.
C9_NoDeadlineWithoutDuration ==
  duration = 0 =>
     /\ stoppedBy # "deadline"
     /\ fired = batches + dropped + tickC + (IF pc = "tickcase" THEN 1 ELSE 0)
     /\ Phase(pc) \in { "STOPPING", "STOPPED" } => (stoppedBy = "signal" /\ sigCount > 0)

\* A run without duration that wrote a batch on each of two ticks, past the
\* first second, and was then stopped by a signal.
C9_Witness ==
  /\ duration = 0
  /\ pc = "done"
  /\ stoppedBy = "signal"
  /\ batches >= 2
  /\ batches = fired
  /\ now > Second

\* --------------------------------------------------------------------- C10
\* The readings synthesized whose serialization failed.
Failed == { i \in DOMAIN synthLog : Marshal(synthLog[i]).err }

C11_FlushFailureFatal ==
  [][werr => (batches' = batches /\ exitCode' # 0)]_vars

\* --------------------------------------------------------------------- C12
\* C12: an unavailable sink ends the run before generation: when the file
\* cannot be opened the process ends with status 1, the file untouched and
\* nothing synthesized, counted or reported; and when the opened file does
\* not accept writes from before the loop is entered, the process ends before
\* generation begins, so that no record is ever synthesized or counted.
C12_SinkUnavailableFatal ==
  /\ pc = "failed" =>
       /\ exitCode = 1
       /\ synthLog = << >>
       /\ totalEntries = 0
       /\ finalStats = << >>
       /\ disk = preContent
  /\ brokeAt = "setup" =>
       /\ synthLog = << >>
       /\ totalEntries = 0

\* --------------------------------------------------------------------- C13
\* C13: the averages of the final statistics are never the result of a
\* division by zero: with no record written or no time elapsed, the average
\* rate and the average entry size printed are still numbers.
C13_GuardedAverages ==
  \A i \in DOMAIN averages : averages[i].rate.fin /\ averages[i].entrySize.fin

\* --------------------------------------------------------------------- C14
\* The clock value of the last progress report, or of the start of the run.
LastReportAt == IF reports = << >> THEN startTime ELSE reports[Len(reports)].at

\* C14: a progress report is printed only with verbosity enabled, only by a
\* step that begins and ends in RUNNING, one at a time, and no sooner than
\* the report period after the one before it (after the start of the run for
\* the first); with verbosity disabled none is ever printed.
C14_ProgressReports ==
  [][ /\ reports' # reports =>
           /\ verbose
           /\ Phase(pc) = "RUNNING"
           /\ Phase(pc') = "RUNNING"
           /\ Len(reports') = Len(reports) + 1
           /\ SubSeq(reports', 1, Len(reports)) = reports
           /\ reports'[Len(reports')].at - LastReportAt >= ReportSecs * Second
      /\ ~verbose' => reports' = << >> ]_vars

\* Two reports in one run, the second one period after the first.
C14_Witness ==
  /\ Len(reports) = 2
  /\ reports[2].at - reports[1].at >= ReportSecs * Second
  /\ reports[2].total > reports[1].total
  /\ pc = "done"

\* --------------------------------------------------------------------- C15
Profiles == { sensorTypes[n] : n \in DOMAIN sensorTypes }

\* A value, as a numerator over ValueDen, within [min, max] of a profile and
\* within [max, max * 1.2] of it.
InNominalRange(v, st) ==
  v.fin /\ st.Min * ValueDen <= v.num /\ v.num <= st.Max * ValueDen
InAnomalyRange(v, st) ==
  v.fin /\ st.Max * ValueDen <= v.num /\ 5 * v.num <= 6 * st.Max * ValueDen

\* Every profile of the registry with every draw of the random source: the
\* nominal value within [min, max], the anomalous one within [max, max * 1.2].
RegistryRanges ==
  \A st \in Profiles : \A k \in 0 .. FloatDen - 1 :
     /\ InNominalRange(BaseValue(st, k), st)
     /\ InAnomalyRange(AnomalyValue(st, k), st)

\* C15: every reading synthesized is of a profile of the registry, and its
\* value lies within [min, max] of that profile when no anomaly was applied
\* and within [max, max * 1.2] when one was; and this is so of every profile
\* of the registry with every draw of the random source.
C15_ValueRange ==
  /\ \A i \in DOMAIN synthLog :
       /\ genLog[i].profile \in Profiles
       /\ synthLog[i].Type = genLog[i].profile.Type
       /\ IF genLog[i].anomaly
            THEN InAnomalyRange(synthLog[i].Value, genLog[i].profile)
            ELSE InNominalRange(synthLog[i].Value, genLog[i].profile)
  /\ RegistryRanges

\* A file with an anomalous reading strictly above its profile's maximum and
\* a nominal reading strictly inside its profile's range.
C15_Witness ==
  /\ pc = "done"
  /\ \E i, j \in DOMAIN synthLog :
       /\ genLog[i].anomaly
       /\ synthLog[i].Value.num > genLog[i].profile.Max * ValueDen
       /\ ~genLog[j].anomaly
       /\ synthLog[j].Value.num > genLog[j].profile.Min * ValueDen
       /\ synthLog[j].Value.num < genLog[j].profile.Max * ValueDen

\* --------------------------------------------------------------------- C18
\* Every level of the registry under an anomaly: "medium" for the empty one,
\* itself otherwise.
RegistryAlerts ==
  \A n \in DOMAIN alertLevels :
     AnomalyAlert(alertLevels[n]) =
       (IF alertLevels[n] = "" THEN "medium" ELSE alertLevels[n])

\* C18: the alert level of an anomalous reading is never empty: it is
\* "medium" when the level drawn was empty and the level drawn otherwise; the
\* alert level of any other reading is the level drawn; and this is so of
\* every level of the registry.
C18_AnomalyAlertLevel ==
  /\ \A i \in DOMAIN synthLog :
       LET d == genLog[i].drawn
           a == synthLog[i].AlertLevel
       IN /\ \E n \in DOMAIN alertLevels : d = alertLevels[n]
          /\ IF genLog[i].anomaly
               THEN a # "" /\ a = (IF d = "" THEN "medium" ELSE d)
               ELSE a = d
  /\ RegistryAlerts

\* An anomalous reading whose empty level became "medium", and a reading
\* without anomaly whose level stayed empty.
C18_Witness ==
  \E i, j \in DOMAIN synthLog :
     /\ genLog[i].anomaly
     /\ genLog[i].drawn = ""
     /\ synthLog[i].AlertLevel = "medium"
     /\ ~genLog[j].anomaly
     /\ genLog[j].drawn = ""
     /\ synthLog[j].AlertLevel = ""

\* --------------------------------------------------------------------- C16
\* C16: on a tick received, the deadline is tested before anything else: with
\* a duration configured and the clock past the deadline the loop flushes and
\* goes to the final statistics, and no record is synthesized, counted or
\* written; otherwise a batch of batchSize iterations is entered.  Records
\* are synthesized and counted only in a batch, one per iteration, and the
\* batch is left after exactly batchSize of them, all in the file.
C16_DeadlineBeforeBatch ==
  [][ /\ (pc = "tickcase" /\ pc' # pc) =>
           IF duration > 0 /\ now > endTime
             THEN /\ pc' = "stats"
                  /\ stoppedBy' = "deadline"
                  /\ buf' = << >>
                  /\ disk' = disk \o buf
                  /\ UNCHANGED << synthLog, totalEntries, batches >>
             ELSE /\ pc' = "batch"
                  /\ remaining' = batchSize
                  /\ batches' = batches + 1
                  /\ UNCHANGED << synthLog, totalEntries, disk, buf >>
      /\ (synthLog' # synthLog \/ totalEntries' # totalEntries) =>
           /\ pc = "batch" /\ pc' = "batch"
           /\ remaining > 0
           /\ remaining' = remaining - 1
           /\ Len(synthLog') = Len(synthLog) + 1
           /\ totalEntries' = totalEntries + 1
           /\ Len(disk' \o buf') = Len(disk \o buf) + 2
      /\ (pc = "batch" /\ pc' # pc) =>
           /\ pc' = "select"
           /\ remaining = 0
           /\ totalEntries = batchSize * batches
           /\ Len(synthLog) = batchSize * batches
           /\ buf' = << >>
           /\ LineCount(disk') = LineCount(BaseContent) + batchSize * batches
    ]_vars

\* A run in which ticks started two batches of two records and a later tick
\* found the deadline passed: the loop has just flushed and stopped.
C16_Witness ==
  /\ pc = "stats"
  /\ stoppedBy = "deadline"
  /\ sigCount = 0
  /\ batchSize = BatchCap
  /\ batches >= 2
  /\ totalEntries = batchSize * batches
  /\ now > endTime

\* --------------------------------------------------------------------- C17
\* The batch size and the interval have been computed from a positive rate.
PacedPositive == rate > 0 /\ pc \in RunPcs \cup { "done", "panic" }

C20_PositiveInterval ==
  pc \in RunPcs \cup { "done", "panic" } => (interval > 0 /\ pc # "panic")

\* --------------------------------------------------------------------- C19
\* The loop runs with a deadline after which a tick is due within the
\* clock's horizon.
DeadlineDue ==
  /\ Phase(pc) = "RUNNING"
  /\ duration > 0
  /\ endTime + interval <= MaxTime

\* A stop signal has come since the ticker was created.
StopRequested == sigCount > 0 /\ sigAt \in RunPcs

\* C19: (a) a loop with a deadline ends: a tick taken after the deadline
\* always stops it, and it reaches STOPPED with status 0; (b) a stop signal
\* that has come, at any position of the loop, stays in sigChan until the
\* loop takes it, and the loop reaches STOPPED with status 0.
C19_RunEnds ==
  /\ [][(pc = "tickcase" /\ duration > 0 /\ now > endTime /\ pc' # pc)
          => pc' = "stats"]_vars
  /\ [](StopRequested =>
          (sigChan > 0 \/ pc \in { "sigcase", "stats", "return", "done" }))
  /\ DeadlineDue ~> (pc = "done" /\ exitCode = 0)
  /\ StopRequested ~> (pc = "done" /\ exitCode = 0)

\* A run with no duration that a signal reached while the second batch or a
\* later one was being written, and that the signal stopped.
C19_Witness ==
  /\ pc = "done"
  /\ duration = 0
  /\ sigAt = "batch"
  /\ stoppedBy = "signal"
  /\ batches >= 2
  /\ exitCode = 0

\* generateReading's table is generateReading: for every state of the random
\* source and every clock value, the tabulated result is the result.
ReadingAtIsGenerateReading ==
  \A s \in 0 .. RngMod - 1 : ReadingAt(s, now) = generateReading(s, now)

====
